---- MODULE Spec2Model ----
(***************************************************************************)
(* LD Lookup 6.0.1: the identifier extractor of src/app.py                 *)
(* (extract_lnumbers_from_text_with_correction) and the two tabs that     *)
(* call it (Item lookup, Audit).  A text is a sequence of one-character   *)
(* strings; an identifier is such a sequence too.                         *)
(***************************************************************************)
EXTENDS Integers, Sequences, FiniteSets, TLC

\* ------------------------------------------------------------------------
\* Bounds of the explored inputs
\* ------------------------------------------------------------------------
MaxChunks == 4
MaxWords == 3

\* ------------------------------------------------------------------------
\* Program constants
\* ------------------------------------------------------------------------
\* RE_BARE7 = \b(\d{7})\b : the repetition count
BareLen == 7
\* st.text_input("L-number", max_chars=16, ...)
MaxChars == 16

\* ------------------------------------------------------------------------
\* Character classes of Python's re module (str patterns)
\* ------------------------------------------------------------------------
Digits == {"0", "1", "2", "3", "4", "5", "6", "7", "8", "9"}
Letters == {"L", "l", "a", "A"}
Whitespace == {" "}

\* \d
IsDigit(c) == c \in Digits

\* \w : alphanumerics and the underscore
IsWord(c) == c \in Digits \cup Letters \cup {"_"}

\* str.upper() on one character
UpperChar(c) == IF c = "l" THEN "L" ELSE IF c = "a" THEN "A" ELSE c

\* the upper-casing as a bug would leave it: no case conversion at all
UpperNone(s) == s

\* str.upper()
Upper(s) == [k \in 1..Len(s) |-> UpperChar(s[k])]

\* the character L of the pattern under re.IGNORECASE
MatchesL(c) == c \in {"L", "l"}

\* \b before the (1-based) position i of t; i = Len(t) + 1 is the end of t
WordBoundary(t, i) ==
    LET before == (i > 1) /\ IsWord(t[i - 1])
        after == (i <= Len(t)) /\ IsWord(t[i])
    IN before # after

Max(S) == CHOOSE x \in S : \A y \in S : y <= x

Range(s) == {s[k] : k \in 1..Len(s)}

\* ------------------------------------------------------------------------
\* RE_LNUM = \bL\d+\b (IGNORECASE): the end of the match that starts at i,
\* or 0.  \d+ is greedy and backtracks: the longest digit run after the
\* letter that is followed by a word boundary.
\* ------------------------------------------------------------------------
\* the pattern with \d* in place of \d+
LNumEndStar(t, i) ==
    LET ends == {e \in i..Len(t) :
                    /\ \A k \in (i + 1)..e : IsDigit(t[k])
                    /\ WordBoundary(t, e + 1)}
    IN IF WordBoundary(t, i) /\ MatchesL(t[i]) /\ ends # {}
       THEN Max(ends) ELSE 0

LNumEnd(t, i) ==
    LET ends == {e \in (i + 1)..Len(t) :
                    /\ \A k \in (i + 1)..e : IsDigit(t[k])
                    /\ WordBoundary(t, e + 1)}
    IN IF WordBoundary(t, i) /\ MatchesL(t[i]) /\ ends # {}
       THEN Max(ends) ELSE 0

\* ------------------------------------------------------------------------
\* RE_BARE7 = \b(\d{7})\b : the end of the match that starts at i, or 0
\* ------------------------------------------------------------------------
\* the pattern without its leading \b
Bare7EndNoLead(t, i) ==
    IF /\ i + BareLen - 1 <= Len(t)
       /\ \A k \in i..(i + BareLen - 1) : IsDigit(t[k])
       /\ WordBoundary(t, i + BareLen)
    THEN i + BareLen - 1 ELSE 0

\* the pattern without its trailing \b
Bare7EndNoTrail(t, i) ==
    IF /\ WordBoundary(t, i)
       /\ i + BareLen - 1 <= Len(t)
       /\ \A k \in i..(i + BareLen - 1) : IsDigit(t[k])
    THEN i + BareLen - 1 ELSE 0

Bare7End(t, i) ==
    IF /\ WordBoundary(t, i)
       /\ i + BareLen - 1 <= Len(t)
       /\ \A k \in i..(i + BareLen - 1) : IsDigit(t[k])
       /\ WordBoundary(t, i + BareLen)
    THEN i + BareLen - 1 ELSE 0

\* ------------------------------------------------------------------------
\* finditer: the non-overlapping matches, left to right, scanning from i.
\* A match is the record of its first and last position.
\* ------------------------------------------------------------------------
RECURSIVE FinditerLNum(_, _)
FinditerLNum(t, i) ==
    IF i > Len(t) THEN <<>>
    ELSE LET e == LNumEnd(t, i)
         IN IF e > 0
            THEN <<[start |-> i, end |-> e]>> \o FinditerLNum(t, e + 1)
            ELSE FinditerLNum(t, i + 1)

RECURSIVE FinditerBare7(_, _)
FinditerBare7(t, i) ==
    IF i > Len(t) THEN <<>>
    ELSE LET e == Bare7End(t, i)
         IN IF e > 0
            THEN <<[start |-> i, end |-> e]>> \o FinditerBare7(t, e + 1)
            ELSE FinditerBare7(t, i + 1)

\* m.group(0), and m.group(1) of RE_BARE7 (its one group is the whole match)
Group(t, m) == SubSeq(t, m.start, m.end)

\* ------------------------------------------------------------------------
\* extract_lnumbers_from_text_with_correction
\* ------------------------------------------------------------------------
\* for m in RE_LNUM.finditer(text): found.append(m.group(0).upper())
Canonical(t, lm) == [k \in 1..Len(lm) |-> Upper(Group(t, lm[k]))]

\* candidate = f"L{m.group(1)}"; candidate.upper()
Candidates(t, bm) == [k \in 1..Len(bm) |-> Upper(<<"L">> \o Group(t, bm[k]))]

\* the bare candidates collected before the canonical matches
FoundBareFirst(canon, cand) == cand \o canon

\* found after both loops: the canonical matches, then the bare candidates
Found(canon, cand) == canon \o cand

\* the duplicate test left out
KeepAlways(x, seen) == TRUE

\* if x not in seen
Keep(x, seen) == x \notin seen

\* the membership test left out
MarkAlways(x, corr_set) == TRUE

\* the membership test inverted
MarkInverted(x, corr_set) == x \notin corr_set

\* if x in corr_set
Mark(x, corr_set) == x \in corr_set

\* the deduplication loop, from position k of found on
RECURSIVE DedupLoop(_, _, _, _, _, _)
DedupLoop(found, k, seen, out, corr_out, corr_set) ==
    IF k > Len(found) THEN [out |-> out, corr_out |-> corr_out]
    ELSE LET x == found[k]
         IN IF Keep(x, seen)
            THEN DedupLoop(found, k + 1, seen \cup {x}, Append(out, x),
                           IF Mark(x, corr_set) THEN Append(corr_out, x)
                                                ELSE corr_out,
                           corr_set)
            ELSE DedupLoop(found, k + 1, seen, out, corr_out, corr_set)

\* return out, corrected
ReturnCandidates(d, corrected) == [out |-> d.out, corr_out |-> corrected]

\* return out, corr_out
Return(d, corrected) == [out |-> d.out, corr_out |-> d.corr_out]

EmptyResult ==
    [lmatches |-> <<>>, bmatches |-> <<>>, found |-> <<>>,
     corrected |-> <<>>, out |-> <<>>, corr_out |-> <<>>]

\* The function.  The result record holds the returned pair (out, corr_out)
\* and, for the statements about its steps, the locals found and corrected
\* and the two match lists as they are when it returns.
extract(t) ==
    IF t = <<>> THEN EmptyResult
    ELSE LET lm == FinditerLNum(t, 1)
             bm == FinditerBare7(t, 1)
             found == Found(Canonical(t, lm), Candidates(t, bm))
             corrected == Candidates(t, bm)
             d == DedupLoop(found, 1, {}, <<>>, <<>>, Range(corrected))
             r == Return(d, corrected)
         IN [lmatches |-> lm, bmatches |-> bm, found |-> found,
             corrected |-> corrected, out |-> r.out, corr_out |-> r.corr_out]

\* the identifiers joined with no separator
RECURSIVE JoinNoSep(_)
JoinNoSep(xs) == IF xs = <<>> THEN <<>> ELSE xs[1] \o JoinNoSep(Tail(xs))

\* " ".join(xs)
RECURSIVE Join(_)
Join(xs) ==
    IF xs = <<>> THEN <<>>
    ELSE IF Len(xs) = 1 THEN xs[1]
    ELSE xs[1] \o <<" ">> \o Join(Tail(xs))

\* str.strip()
RECURSIVE Strip(_)
Strip(t) ==
    IF t = <<>> THEN <<>>
    ELSE IF t[1] \in Whitespace THEN Strip(Tail(t))
    ELSE IF t[Len(t)] \in Whitespace THEN Strip(SubSeq(t, 1, Len(t) - 1))
    ELSE t

\* ------------------------------------------------------------------------
\* Inputs
\* ------------------------------------------------------------------------
Rep(c, n) == [k \in 1..n |-> c]
D1 == Rep("1", BareLen)
D2 == Rep("2", BareLen)

\* free text: concatenations of at most MaxChunks chunks
Chunks == {<<"L">>, <<"l">>, <<" ">>, <<"a">>, <<"1">>, D1, D2}

\* lists: at most MaxWords words, separated by single spaces
Words == {D1, D2, <<"L">> \o D1, <<"L">> \o D2, <<"l">> \o D1, <<"L", "1">>}

RECURSIVE Concat(_)
Concat(xs) == IF xs = <<>> THEN <<>> ELSE xs[1] \o Concat(Tail(xs))

RECURSIVE Spaced(_)
Spaced(ws) ==
    IF ws = <<>> THEN <<>>
    ELSE IF Len(ws) = 1 THEN ws[1]
    ELSE ws[1] \o <<" ">> \o Spaced(Tail(ws))

SeqsUpTo(S, n) == UNION {[1..k -> S] : k \in 0..n}

Texts ==
    {Concat(cs) : cs \in SeqsUpTo(Chunks, MaxChunks)}
        \cup {Spaced(ws) : ws \in SeqsUpTo(Words, MaxWords)}

\* ------------------------------------------------------------------------
\* State
\* ------------------------------------------------------------------------
VARIABLES
    text,         \* the raw text handed to the program
    pc,           \* "input", "extracted", "detected", "audited", "lookup"
    res,          \* extract(text): the function applied to the raw text
    lnums_bulk,   \* Audit tab
    fixed_bulk,   \* Audit tab
    edited_text,  \* Audit tab: the "Detected list" text area
    final,        \* Audit tab: the extraction of Run Audit
    lnums,        \* Item lookup tab
    fixed,        \* Item lookup tab
    chip          \* Item lookup tab: what is shown under the field

vars == <<text, pc, res, lnums_bulk, fixed_bulk, edited_text, final,
          lnums, fixed, chip>>

Init ==
    /\ text \in Texts
    /\ pc = "input"
    /\ res = EmptyResult
    /\ lnums_bulk = <<>>
    /\ fixed_bulk = <<>>
    /\ edited_text = <<>>
    /\ final = EmptyResult
    /\ lnums = <<>>
    /\ fixed = <<>>
    /\ chip = "none"

\* the function called on the raw text
Extract ==
    /\ pc = "input"
    /\ res' = extract(text)
    /\ pc' = "extracted"
    /\ UNCHANGED <<text, lnums_bulk, fixed_bulk, edited_text, final,
                   lnums, fixed, chip>>

\* Audit tab, up to the "Detected list" text area
TabAudit ==
    /\ pc = "input"
    /\ LET r == IF Strip(text) # <<>> THEN extract(text) ELSE EmptyResult
       IN /\ lnums_bulk' = r.out
          /\ fixed_bulk' = r.corr_out
          /\ edited_text' = Join(r.out)
    /\ pc' = "detected"
    /\ UNCHANGED <<text, res, final, lnums, fixed, chip>>

\* Audit tab, Run Audit pressed with the list as it stands
RunAudit ==
    /\ pc = "detected"
    /\ final' = extract(edited_text)
    /\ pc' = "audited"
    /\ UNCHANGED <<text, res, lnums_bulk, fixed_bulk, edited_text,
                   lnums, fixed, chip>>

\* Item lookup tab, Find pressed
Find ==
    /\ pc = "input"
    /\ Len(text) <= MaxChars
    /\ IF Strip(text) # <<>>
       THEN LET r == extract(Strip(text))
            IN IF r.out # <<>>
               THEN /\ lnums' = <<r.out[1]>>
                    /\ fixed' = r.corr_out
                    /\ chip' = IF r.out[1] \in Range(r.corr_out)
                               THEN "Corrected" ELSE "Detected"
               ELSE /\ lnums' = <<>>
                    /\ fixed' = <<>>
                    /\ chip' = "warning"
       ELSE UNCHANGED <<lnums, fixed, chip>>
    /\ pc' = "lookup"
    /\ UNCHANGED <<text, res, lnums_bulk, fixed_bulk, edited_text, final>>

Next == Extract \/ TabAudit \/ RunAudit \/ Find

Spec == Init /\ [][Next]_vars

\* ------------------------------------------------------------------------
\* Vocabulary of the properties, stated on the text itself
\* ------------------------------------------------------------------------
Min(S) == CHOOSE x \in S : \A y \in S : x <= y

NonWordBefore(t, p) == p = 1 \/ ~IsWord(t[p - 1])
NonWordAfter(t, e) == e = Len(t) \/ ~IsWord(t[e + 1])

\* a canonical token at p..e: a letter L of either case and one or more
\* digits, delimited by non-word characters or the ends of the text
CanonTokenAt(t, p, e) ==
    /\ p < e /\ e <= Len(t)
    /\ NonWordBefore(t, p)
    /\ t[p] \in {"L", "l"}
    /\ \A k \in (p + 1)..e : IsDigit(t[k])
    /\ NonWordAfter(t, e)

\* a bare 7-digit run starting at p, delimited in the same way
BareRunAt(t, p) ==
    /\ p + 6 <= Len(t)
    /\ NonWordBefore(t, p)
    /\ \A k \in p..(p + 6) : IsDigit(t[k])
    /\ NonWordAfter(t, p + 6)

\* a maximal run of digits at p..e
DigitRunAt(t, p, e) ==
    /\ p <= e /\ e <= Len(t)
    /\ \A k \in p..e : IsDigit(t[k])
    /\ (p = 1 \/ ~IsDigit(t[p - 1]))
    /\ (e = Len(t) \/ ~IsDigit(t[e + 1]))

Pos(t) == 1..Len(t)

\* where the text holds canonical tokens, and bare runs, of the value x
CanonPos(t, x) ==
    {p \in Pos(t) : \E e \in Pos(t) :
        CanonTokenAt(t, p, e) /\ x = <<"L">> \o SubSeq(t, p + 1, e)}
BarePos(t, x) ==
    {p \in Pos(t) : BareRunAt(t, p) /\ x = <<"L">> \o SubSeq(t, p, p + 6)}

HasCanonToken(t) == \E p, e \in Pos(t) : CanonTokenAt(t, p, e)
HasBareRun(t) == \E p \in Pos(t) : BareRunAt(t, p)

\* 'L' followed by digits only, at least one
IsIdentifier(x) ==
    /\ Len(x) >= 2
    /\ x[1] = "L"
    /\ \A k \in 2..Len(x) : IsDigit(x[k])

NoDup(xs) == \A i, j \in 1..Len(xs) : i # j => xs[i] # xs[j]

\* a is b with some elements left out
RECURSIVE IsSubseq(_, _)
IsSubseq(a, b) ==
    IF a = <<>> THEN TRUE
    ELSE IF b = <<>> THEN FALSE
    ELSE IF a[1] = b[1] THEN IsSubseq(Tail(a), Tail(b))
    ELSE IsSubseq(a, Tail(b))

Extracted == pc = "extracted"

\* ------------------------------------------------------------------------
\* Properties
\* ------------------------------------------------------------------------

\* C1: the identifiers list returned for any text holds no value twice
\* (the first extraction, and the extraction of Run Audit).
C1_NoDuplicates ==
    /\ Extracted => NoDup(res.out)
    /\ pc = "audited" => NoDup(final.out)

\* a text with repeated mentions, of which the list keeps one each
C1_Witness ==
    /\ Extracted
    /\ Len(res.out) >= 2
    /\ Len(res.found) > Len(res.out)

\* C2: corrected is a subsequence of identifiers: each of its elements is
\* an element of identifiers and they come in the order they have there.
C2_CorrectedSubsequence ==
    Extracted =>
        /\ Range(res.corr_out) \subseteq Range(res.out)
        /\ IsSubseq(res.corr_out, res.out)

\* two corrected identifiers, listed in another order than the one the
\* candidates were discovered in
C2_Witness ==
    /\ Extracted
    /\ Len(res.corr_out) >= 2
    /\ res.corrected # res.corr_out

\* C3: idempotence: extracting from the identifiers joined by single spaces
\* (the unedited "Detected list" on Run Audit) gives the same identifiers in
\* the same order, and nothing corrected.
C3_Idempotent ==
    pc = "audited" =>
        /\ final.out = lnums_bulk
        /\ final.corr_out = <<>>

\* a first extraction that corrected something, extracted again
C3_Witness ==
    /\ pc = "audited"
    /\ Len(lnums_bulk) >= 2
    /\ fixed_bulk # <<>>
    /\ final.out = lnums_bulk

\* the first position of a match of either kind of the value x
FirstMatch(t, x) == Min(CanonPos(t, x) \cup BarePos(t, x))

\* C4 as stated: identifiers with a canonical match come before those with
\* bare matches only, and within each group they are ordered by the position
\* of their first match in the text.
C4_OrderByFirstMatch ==
    Extracted =>
        \A i, j \in 1..Len(res.out) : i < j =>
            LET x == res.out[i]
                y == res.out[j]
                cx == CanonPos(text, x) # {}
                cy == CanonPos(text, y) # {}
            IN /\ cy => cx
               /\ (cx = cy) => FirstMatch(text, x) < FirstMatch(text, y)

\* C4 amended: identifiers with a canonical match come before those with
\* bare matches only; the former are ordered by the position of their first
\* canonical match, the latter by the position of their first bare match.
C4_OrderByGroupMatch ==
    Extracted =>
        \A i, j \in 1..Len(res.out) : i < j =>
            LET x == res.out[i]
                y == res.out[j]
                cx == CanonPos(text, x) # {}
                cy == CanonPos(text, y) # {}
            IN /\ cy => cx
               /\ (cx /\ cy) =>
                     Min(CanonPos(text, x)) < Min(CanonPos(text, y))
               /\ (~cx /\ ~cy) =>
                     Min(BarePos(text, x)) < Min(BarePos(text, y))

\* two identifiers with canonical matches, the later-listed of which has a
\* bare match left of every match of the other
C4_Witness ==
    /\ Extracted
    /\ \E i, j \in 1..Len(res.out) :
          /\ i < j
          /\ CanonPos(text, res.out[i]) # {}
          /\ CanonPos(text, res.out[j]) # {}
          /\ FirstMatch(text, res.out[j]) < FirstMatch(text, res.out[i])

\* C5: an identifier of the result is in corrected exactly when the text
\* holds a bare 7-digit run of its value, whether or not it also holds a
\* canonical token of that value; without a bare run corrected is empty.
C5_CorrectedIffBare ==
    Extracted =>
        /\ \A x \in Range(res.out) :
              x \in Range(res.corr_out) <=> BarePos(text, x) # {}
        /\ ~HasBareRun(text) => res.corr_out = <<>>

\* a corrected identifier that the text also holds as a canonical token,
\* next to an identifier that is not corrected
C5_Witness ==
    /\ Extracted
    /\ \E x \in Range(res.corr_out) : CanonPos(text, x) # {}
    /\ \E y \in Range(res.out) : y \notin Range(res.corr_out)

\* C6: a text that is empty, all whitespace, or without a canonical token
\* and without a bare 7-digit run gives two empty lists, and every text
\* gives a pair of lists of identifiers.
C6_NoMatchEmpty ==
    /\ Extracted =>
          \A x \in Range(res.out) \cup Range(res.corr_out) : Len(x) >= 1
    /\ (/\ Extracted
        /\ \/ text = <<>>
           \/ Strip(text) = <<>>
           \/ ~HasCanonToken(text) /\ ~HasBareRun(text))
          => res.out = <<>> /\ res.corr_out = <<>>

\* a text with a letter L right before a digit, yet no token and no run
C6_Witness ==
    /\ Extracted
    /\ Strip(text) # <<>>
    /\ \E p \in Pos(text) :
          p < Len(text) /\ MatchesL(text[p]) /\ IsDigit(text[p + 1])
    /\ res.out = <<>>
    /\ res.corr_out = <<>>

\* C7: every bare match is a maximal digit run of exactly 7 digits, every
\* element of corrected is 'L' and exactly 7 digits, and a text without a
\* canonical token whose digit runs all have another length gives two empty
\* lists.
C7_ExactlySeven ==
    Extracted =>
        /\ \A k \in 1..Len(res.bmatches) :
              /\ res.bmatches[k].end - res.bmatches[k].start + 1 = 7
              /\ DigitRunAt(text, res.bmatches[k].start, res.bmatches[k].end)
        /\ \A x \in Range(res.corrected) \cup Range(res.corr_out) :
              IsIdentifier(x) /\ Len(x) = 8
        /\ (/\ ~HasCanonToken(text)
            /\ \A p, e \in Pos(text) : DigitRunAt(text, p, e) => e - p + 1 # 7)
             => res.out = <<>> /\ res.corr_out = <<>>

\* a text with a digit run longer than 7 and one shorter, nothing extracted
C7_Witness ==
    /\ Extracted
    /\ \E p, e \in Pos(text) : DigitRunAt(text, p, e) /\ e - p + 1 > 7
    /\ \E p, e \in Pos(text) : DigitRunAt(text, p, e) /\ e - p + 1 < 7
    /\ res.out = <<>>
    /\ res.corr_out = <<>>

\* C8: every identifier is an upper-case 'L' and one or more digits; a
\* canonical token gives the same identifier whichever the case of its
\* letter, so that 'l1111111' alone gives <<L1111111>> and tokens that
\* differ in the case of the letter only give one entry.
C8_UpperCaseL ==
    Extracted =>
        /\ \A x \in Range(res.out) \cup Range(res.found) : IsIdentifier(x)
        /\ \A p, e \in Pos(text) : CanonTokenAt(text, p, e) =>
              <<"L">> \o SubSeq(text, p + 1, e) \in Range(res.out)
        /\ text = <<"l">> \o D1 => res.out = <<<<"L">> \o D1>>

\* a token with 'l' and the same token with 'L', one identifier
C8_Witness ==
    /\ Extracted
    /\ \E p, q, e, f \in Pos(text) :
          /\ CanonTokenAt(text, p, e) /\ text[p] = "l"
          /\ CanonTokenAt(text, q, f) /\ text[q] = "L"
          /\ SubSeq(text, p + 1, e) = SubSeq(text, q + 1, f)
    /\ Len(res.out) = 1

\* the canonical matches of 'L' and exactly 7 digits
Canon7(r) == {k \in 1..Len(r.lmatches) :
                 r.lmatches[k].end - r.lmatches[k].start = 7}

\* C9 as stated: the digits of a token 'L' + 7 digits are matched again by
\* the bare scan, so the token is in found twice and in the candidates.
C9_SuffixRematched ==
    Extracted =>
        \A k \in Canon7(res) :
            /\ \E j \in 1..Len(res.bmatches) :
                  res.bmatches[j].start = res.lmatches[k].start + 1
            /\ res.found[k] \in Range(res.corrected)

\* C9 amended: the bare scan never matches inside a canonical match (there
\* is no word boundary between the letter and its digits): found holds one
\* entry per canonical match and one per bare run outside them, and a text
\* that is one such token has one entry in found and no candidate.
C9_SuffixNotRematched ==
    Extracted =>
        /\ \A k \in 1..Len(res.lmatches) : \A j \in 1..Len(res.bmatches) :
              \/ res.bmatches[j].end < res.lmatches[k].start
              \/ res.bmatches[j].start > res.lmatches[k].end
        /\ Len(res.found) = Len(res.lmatches) + Len(res.bmatches)
        /\ Len(res.bmatches) = Cardinality({p \in Pos(text) : BareRunAt(text, p)})
        /\ (Canon7(res) # {} /\ ~HasBareRun(text)) => res.corrected = <<>>

\* a token of 'L' and 7 digits, collected once and not as a candidate
C9_Witness ==
    /\ Extracted
    /\ Canon7(res) # {}
    /\ Len(res.found) = 1
    /\ res.corrected = <<>>

\* C10 as stated: no element of corrected has a value that the text also
\* holds as a canonical token (in the function's result, and in what the
\* Item lookup tab marks "Corrected").
C10_CorrectedOnlyBare ==
    /\ Extracted =>
          \A x \in Range(res.corr_out) : CanonPos(text, x) = {}
    /\ (pc = "lookup" /\ chip = "Corrected") =>
          CanonPos(Strip(text), lnums[1]) = {}

\* C10 amended: every element of corrected has a value that the text holds
\* as a bare 7-digit run; the text may hold it as a canonical token as well.
C10_CorrectedHasBare ==
    /\ Extracted =>
          \A x \in Range(res.corr_out) : BarePos(text, x) # {}
    /\ (pc = "lookup" /\ chip = "Corrected") =>
          /\ lnums[1] \in Range(fixed)
          /\ BarePos(Strip(text), lnums[1]) # {}

\* an identifier marked corrected whose first mention is a canonical token
C10_Witness ==
    /\ Extracted
    /\ res.corr_out # <<>>
    /\ LET x == res.corr_out[1]
       IN /\ CanonPos(text, x) # {}
          /\ Min(CanonPos(text, x)) < Min(BarePos(text, x))
====
